---- MODULE Spec2Model ----
(***************************************************************************)
(* Model of src/app/api/analyze/route.ts: the clip heuristic scorer        *)
(* (analyzeVideoForClips), the platform classifier (detectPlatform), the   *)
(* POST request handler and the Home component's handleAnalyze.            *)
(*                                                                         *)
(* Three specifications share the variables:                               *)
(*   SpecScorer  calls analyzeVideoForClips on a drawn duration;           *)
(*   SpecPOST    handles one drawn request with POST;                      *)
(*   SpecHome    runs the Home component against the POST handler.         *)
(***************************************************************************)
EXTENDS Integers, Sequences, FiniteSets, TLC

VARIABLES
    duration,   \* analyzeVideoForClips: the duration argument under test
    calls,      \* analyzeVideoForClips: the calls made so far with it, <<[platform, clips]>>
    request,    \* POST: the request being handled
    platform,   \* POST: the handler's local `platform` (line 153), NotReached before it is set
    response,   \* POST: the response returned, NoResponse before the handler has run
    url,        \* Home: useState('') (line 212)
    loading,    \* Home: useState(false) (line 213)
    result,     \* Home: useState(null) (line 214)
    error,      \* Home: useState('') (line 215)
    inflight    \* Home: the fetches started by handleAnalyze and not yet settled

vars == <<duration, calls, request, platform, response, url, loading, result, error, inflight>>

scorerVars == <<duration, calls>>
postVars == <<request, platform, response>>
homeVars == <<url, loading, result, error, inflight>>

----------------------------------------------------------------------------
(* Bounds of the model *)

MaxDuration == 430
MaxNegDuration == 2
MaxCalls == 2

Durations == (0 - MaxNegDuration)..MaxDuration

Min(a, b) == IF a <= b THEN a ELSE b
Max(a, b) == IF a >= b THEN a ELSE b

----------------------------------------------------------------------------
(* analyzeVideoForClips, lines 64-139 *)

\* Math.floor(duration * 0.4), line 81.  For an integer d with |d| < 2^53 the
\* IEEE-754 product d * 0.4 floors to the same integer as the exact quotient
\* 4d / 10: the double nearest 0.4 lies above 0.4 by less than half an ulp, so
\* the product rounds to 4d/10 when that is an integer and stays strictly
\* between the neighbouring integers otherwise.  \div is floor division.
FloorTimes04(d) == (4 * d) \div 10

\* Math.floor(duration * 0.3), line 108 (the double nearest 0.3 lies below 0.3;
\* the product still rounds to 3d/10 when that is an integer).
FloorTimes03(d) == (3 * d) \div 10

\* Math.floor(duration * 0.55), line 122.
FloorTimes055(d) == (55 * d) \div 100

\* Strategy 1: Hook/Opening, lines 68-77.
Strategy1(d) ==
    IF d >= 60
    THEN << [startTime |-> 0,
             endTime   |-> Min(75, d),
             duration  |-> Min(75, d),
             score     |-> 92,
             reason    |-> "Strong hook with immediate engagement. First impressions are crucial for viral content. This segment captures attention within the first few seconds.",
             keywords  |-> <<"hook", "opening", "attention-grabbing", "first impression">>] >>
    ELSE << >>

\* The object pushed by strategy 2, lines 83-90.
Strategy2Clip(peakStart, peakEnd) ==
    [startTime |-> peakStart,
     endTime   |-> peakEnd,
     duration  |-> peakEnd - peakStart,
     score     |-> 95,
     reason    |-> "Peak engagement moment with maximum energy and emotion. This section has the highest action density and audience retention potential.",
     keywords  |-> <<"climax", "high-energy", "emotional peak", "key moment">>]

\* Mutant: the threshold test written > instead of >=.
Strategy2Strict(d) ==
    IF d > 180
    THEN << Strategy2Clip(FloorTimes04(d), Min(FloorTimes04(d) + 65, d)) >>
    ELSE << >>

\* Strategy 2: Peak moment, lines 80-91.
Strategy2(d) ==
    IF d >= 180
    THEN LET peakStart == FloorTimes04(d)
             peakEnd   == Min(peakStart + 65, d)
         IN << Strategy2Clip(peakStart, peakEnd) >>
    ELSE << >>

\* The object pushed by strategy 3, lines 96-103.
Strategy3Clip(endStart, d) ==
    [startTime |-> endStart,
     endTime   |-> d,
     duration  |-> d - endStart,
     score     |-> 88,
     reason    |-> "Satisfying conclusion with payoff. Creates a complete story arc that encourages shares and rewatches. Strong call-to-action potential.",
     keywords  |-> <<"payoff", "resolution", "conclusion", "satisfying">>]

\* Strategy 3: Payoff/Resolution, lines 94-104.
Strategy3(d) ==
    IF d >= 240
    THEN LET endStart == Max(d - 80, 0)
         IN << Strategy3Clip(endStart, d) >>
    ELSE << >>

\* The object pushed by strategy 4, lines 110-117: the duration field is the
\* literal 90.
Strategy4Clip(bestStart, bestEnd) ==
    [startTime |-> bestStart,
     endTime   |-> bestEnd,
     duration  |-> 90,
     score     |-> 89,
     reason    |-> "Most coherent standalone segment with complete narrative. Perfect pacing for shorts. Contains multiple engagement triggers.",
     keywords  |-> <<"coherent", "standalone", "complete story", "balanced pacing">>]

\* Mutant: the threshold 300 written 100.
Strategy4Early(d) ==
    IF d >= 100
    THEN << Strategy4Clip(FloorTimes03(d), FloorTimes03(d) + 90) >>
    ELSE << >>

\* Strategy 4: Best continuous segment, lines 107-118.  The end is not capped.
Strategy4(d) ==
    IF d >= 300
    THEN LET bestStart == FloorTimes03(d)
             bestEnd   == bestStart + 90
         IN << Strategy4Clip(bestStart, bestEnd) >>
    ELSE << >>

\* Mutant: the duration field written as the literal 70, as strategy 4 writes
\* its literal 90.
Strategy5ClipLiteral(reactionStart, reactionEnd) ==
    [startTime |-> reactionStart,
     endTime   |-> reactionEnd,
     duration  |-> 70,
     score     |-> 91,
     reason    |-> "Surprise or wow moment that drives reactions and comments. High shareability factor. Creates emotional response.",
     keywords  |-> <<"surprise", "wow factor", "shareable", "reaction-worthy">>]

\* The object pushed by strategy 5, lines 124-131.
Strategy5Clip(reactionStart, reactionEnd) ==
    [startTime |-> reactionStart,
     endTime   |-> reactionEnd,
     duration  |-> reactionEnd - reactionStart,
     score     |-> 91,
     reason    |-> "Surprise or wow moment that drives reactions and comments. High shareability factor. Creates emotional response.",
     keywords  |-> <<"surprise", "wow factor", "shareable", "reaction-worthy">>]

\* Mutant: the end left uncapped, as strategy 4 leaves its end.
Strategy5Uncapped(d) ==
    IF d >= 150
    THEN << Strategy5Clip(FloorTimes055(d), FloorTimes055(d) + 70) >>
    ELSE << >>

\* Strategy 5: Reaction-worthy moment, lines 121-132.
Strategy5(d) ==
    IF d >= 150
    THEN LET reactionStart == FloorTimes055(d)
             reactionEnd   == Min(reactionStart + 70, d)
         IN << Strategy5Clip(reactionStart, reactionEnd) >>
    ELSE << >>

\* The clips array after the five pushes, in push order (lines 65-132).
pushedClips(d) ==
    Strategy1(d) \o Strategy2(d) \o Strategy3(d) \o Strategy4(d) \o Strategy5(d)

\* One step of the stable sort: c goes after every element that does not
\* compare greater than it under (a, b) => b.score - a.score.
RECURSIVE InsertByScore(_, _)
InsertByScore(c, sorted) ==
    IF sorted = << >> THEN <<c>>
    ELSE IF c.score - Head(sorted).score > 0
         THEN <<c>> \o sorted
         ELSE <<Head(sorted)>> \o InsertByScore(c, Tail(sorted))

\* Mutant: the comparator written (a, b) => a.score - b.score.
RECURSIVE sortByScoreAscending(_)
sortByScoreAscending(s) ==
    IF s = << >> THEN << >>
    ELSE LET rest == sortByScoreAscending(SubSeq(s, 1, Len(s) - 1))
             c == s[Len(s)]
             before == SelectSeq(rest, LAMBDA x : x.score - c.score <= 0)
             after == SelectSeq(rest, LAMBDA x : x.score - c.score > 0)
         IN before \o <<c>> \o after

\* clips.sort((a, b) => b.score - a.score), line 135: Array.prototype.sort is
\* stable (ECMAScript 2019), modelled as a stable insertion sort.
RECURSIVE sortByScore(_)
sortByScore(s) ==
    IF s = << >> THEN << >>
    ELSE InsertByScore(s[Len(s)], sortByScore(SubSeq(s, 1, Len(s) - 1)))

\* clips.slice(0, 5), line 138.
sliceTop5(s) == SubSeq(s, 1, Min(5, Len(s)))

\* Mutant: clips longer than 60 seconds dropped for TikTok.
analyzeVideoForClipsByPlatform(d, p) ==
    LET top == sliceTop5(sortByScore(pushedClips(d)))
    IN IF p = "TikTok" THEN SelectSeq(top, LAMBDA c : c.duration <= 60) ELSE top

\* analyzeVideoForClips, lines 64-139.  The platform argument is never read.
analyzeVideoForClips(d, p) == sliceTop5(sortByScore(pushedClips(d)))

----------------------------------------------------------------------------
(* JSON values as the handler sees them.  request.json() yields any JSON     *)
(* value; the url property of an object body may be absent or of any type.  *)

Undefined == [type |-> "undefined"]
Null      == [type |-> "null"]
Str(s)    == [type |-> "string", str |-> s]
Num(n)    == [type |-> "number", num |-> n]
Bool(b)   == [type |-> "boolean", bool |-> b]
Arr(a)    == [type |-> "array", items |-> a]

\* ToBoolean, as applied by `!url` (line 145) and by `a || b` (line 182).
Truthy(v) ==
    CASE v.type = "undefined" -> FALSE
      [] v.type = "null"      -> FALSE
      [] v.type = "string"    -> v.str # ""
      [] v.type = "number"    -> v.num # 0
      [] v.type = "boolean"   -> v.bool
      [] OTHER                -> TRUE

\* Whether `v.includes` is callable: String.prototype.includes and
\* Array.prototype.includes exist, a number or a boolean has no such method and
\* the call throws a TypeError.
HasIncludes(v) == v.type \in {"string", "array"}

\* String.prototype.includes: searchString occurs at some position of s.
stringIncludes(s, searchString) ==
    \E i \in 1..(Len(s) - Len(searchString) + 1) :
        SubSeq(s, i, i + Len(searchString) - 1) = searchString

\* v.includes(searchString) for a string (substring search) or an array
\* (some element equal to the string).
includes(v, searchString) ==
    IF v.type = "string"
    THEN stringIncludes(v.str, searchString)
    ELSE \E i \in 1..Len(v.items) : v.items[i] = searchString

\* Mutant: the tiktok.com test moved before the YouTube test.
detectPlatformTikTokFirst(u) ==
    IF includes(u, "tiktok.com") THEN "TikTok"
    ELSE IF includes(u, "youtube.com") \/ includes(u, "youtu.be") THEN "YouTube"
    ELSE IF includes(u, "instagram.com") THEN "Instagram"
    ELSE IF includes(u, "twitter.com") \/ includes(u, "x.com") THEN "Twitter/X"
    ELSE IF includes(u, "facebook.com") THEN "Facebook"
    ELSE IF includes(u, "vimeo.com") THEN "Vimeo"
    ELSE IF includes(u, "twitch.tv") THEN "Twitch"
    ELSE "Unknown"

\* detectPlatform, lines 22-31.
detectPlatform(u) ==
    IF includes(u, "youtube.com") \/ includes(u, "youtu.be") THEN "YouTube"
    ELSE IF includes(u, "tiktok.com") THEN "TikTok"
    ELSE IF includes(u, "instagram.com") THEN "Instagram"
    ELSE IF includes(u, "twitter.com") \/ includes(u, "x.com") THEN "Twitter/X"
    ELSE IF includes(u, "facebook.com") THEN "Facebook"
    ELSE IF includes(u, "vimeo.com") THEN "Vimeo"
    ELSE IF includes(u, "twitch.tv") THEN "Twitch"
    ELSE "Unknown"

PlatformLabels ==
    {"YouTube", "TikTok", "Instagram", "Twitter/X", "Facebook", "Vimeo", "Twitch", "Unknown"}

\* The literal lit occurs in s at position i.
LiteralAt(s, i, lit) ==
    /\ i + Len(lit) - 1 <= Len(s)
    /\ SubSeq(s, i, i + Len(lit) - 1) = lit

\* The character class [^&\n?#] of both patterns (lines 36-37).
IdChar(s, k) == SubSeq(s, k, k) \notin {"&", "\n", "?", "#"}

\* The last position of the greedy run ([^&\n?#]+) starting at j (j - 1 when
\* the run is empty).
RECURSIVE RunEnd(_, _)
RunEnd(s, j) ==
    IF j <= Len(s) /\ IdChar(s, j) THEN RunEnd(s, j + 1) ELSE j - 1

\* The capture of `prefix([^&\n?#]+)` matched at position i, NoMatch if the
\* prefix does not occur there or no id character follows it.
NoMatch == [type |-> "null"]
CaptureAt(s, i, prefix) ==
    IF LiteralAt(s, i, prefix) /\ RunEnd(s, i + Len(prefix)) >= i + Len(prefix)
    THEN Str(SubSeq(s, i + Len(prefix), RunEnd(s, i + Len(prefix))))
    ELSE NoMatch

\* url.match(pattern)[1] for a pattern that is an alternation of the literal
\* prefixes alts (tried in order at each position) followed by the capture:
\* the match at the leftmost position that has one.
RECURSIVE MatchFrom(_, _, _)
MatchFrom(s, i, alts) ==
    IF i > Len(s) THEN NoMatch
    ELSE LET hits == SelectSeq(alts, LAMBDA a : CaptureAt(s, i, a) # NoMatch)
         IN IF hits # << >> THEN CaptureAt(s, i, Head(hits))
            ELSE MatchFrom(s, i + 1, alts)

\* extractYouTubeId, lines 34-45, for a string url.
extractYouTubeId(s) ==
    LET first == MatchFrom(s, 1, <<"youtube.com/watch?v=", "youtu.be/">>)
    IN IF first # NoMatch THEN first
       ELSE MatchFrom(s, 1, <<"youtube.com/embed/">>)

\* fetchVideoMetadata, lines 48-61, for a string url.
fetchVideoMetadata(s, p) ==
    LET videoId == IF p = "YouTube" THEN extractYouTubeId(s) ELSE NoMatch
    IN [title |-> "Amazing Viral Video - Must Watch!",
        duration |-> 420,
        thumbnailUrl |-> IF Truthy(videoId)
                         THEN Str("https://img.youtube.com/vi/" \o videoId.str \o "/maxresdefault.jpg")
                         ELSE Undefined]

----------------------------------------------------------------------------
(* POST, lines 141-186 *)

Obj(u) == [type |-> "object", url |-> u]

\* A request: its body either fails to parse as JSON or parses to a value.
InvalidJson  == [parses |-> FALSE]
JsonBody(v)  == [parses |-> TRUE, body |-> v]

\* `const { url } = body` (line 143): the url property of an object, undefined
\* on an object without it and on a primitive or array body.
UrlOf(body) == IF body.type = "object" THEN body.url ELSE Undefined

NotReached == "(not reached)"
NoResponse == [status |-> 0]

\* NextResponse.json({ error }, { status }), lines 146-149, 156-159, 181-184.
ErrorResponse(message, status) == [status |-> status, body |-> [error |-> message]]

\* The catch block, lines 179-185: error.message || 'Failed to analyze video'.
\* The message texts of the engine's own errors are the engine's; they are
\* never empty.
Caught(message) ==
    ErrorResponse(IF message # "" THEN message ELSE "Failed to analyze video", 500)

\* `platform === 'Unknown'`, line 155.
unsupported(p) == p = "Unknown"

\* One run of the handler: the response it returns and the value its local
\* `platform` took (NotReached if line 153 was not executed or threw).
POSTRun(req) ==
    IF ~req.parses
    THEN \* request.json() rejects (line 143)
         [platform |-> NotReached, response |-> Caught("Unexpected end of JSON input")]
    ELSE IF req.body.type = "null"
    THEN \* destructuring null throws (line 143)
         [platform |-> NotReached,
          response |-> Caught("Cannot destructure property 'url' of null")]
    ELSE LET u == UrlOf(req.body) IN
    IF ~Truthy(u)
    THEN [platform |-> NotReached, response |-> ErrorResponse("Video URL is required", 400)]
    ELSE IF ~HasIncludes(u)
    THEN \* detectPlatform throws (line 23)
         [platform |-> NotReached, response |-> Caught("url.includes is not a function")]
    ELSE LET p == detectPlatform(u) IN
    IF unsupported(p)
    THEN [platform |-> p,
          response |-> ErrorResponse("Unsupported video platform. Please use YouTube, TikTok, Instagram, Twitter/X, or other major platforms.", 400)]
    ELSE IF p = "YouTube" /\ u.type # "string"
    THEN \* extractYouTubeId throws inside fetchVideoMetadata (line 41)
         [platform |-> p, response |-> Caught("url.match is not a function")]
    ELSE LET metadata == fetchVideoMetadata(IF u.type = "string" THEN u.str ELSE "", p)
             clips    == analyzeVideoForClips(metadata.duration, p)
         IN [platform |-> p,
             response |-> [status |-> 200,
                           body |-> [videoUrl     |-> u,
                                     platform     |-> p,
                                     title        |-> metadata.title,
                                     duration     |-> metadata.duration,
                                     thumbnailUrl |-> metadata.thumbnailUrl,
                                     clips        |-> clips]]]

POST(req) == POSTRun(req).response

----------------------------------------------------------------------------
(* The inputs of the model *)

MaxParts == 3

UrlPieces ==
    {"https://", "youtube.com", "youtu.be", "tiktok.com", "instagram.com",
     "twitter.com", "x.com", "facebook.com", "vimeo.com", "twitch.tv",
     "example.com", "netfli", "YouTube.com",
     "/abc123", "/watch?v=abc&t=1", "/embed/xyz#t", "/@x/video/1"}

\* The strings made of at most n pieces, the empty string among them.
RECURSIVE UrlsOfParts(_)
UrlsOfParts(n) ==
    IF n = 0 THEN {""}
    ELSE LET shorter == UrlsOfParts(n - 1)
         IN shorter \cup {u \o q : u \in shorter, q \in UrlPieces}

Urls == UrlsOfParts(MaxParts)

Requests ==
    {InvalidJson, JsonBody(Null), JsonBody(Num(5)), JsonBody(Str("youtube.com")),
     JsonBody(Obj(Undefined)), JsonBody(Obj(Null)),
     JsonBody(Obj(Num(0))), JsonBody(Obj(Num(7))),
     JsonBody(Obj(Bool(FALSE))), JsonBody(Obj(Bool(TRUE))),
     JsonBody(Obj(Arr(<< >>))), JsonBody(Obj(Arr(<<"tiktok.com">>))),
     JsonBody(Obj(Arr(<<"youtube.com">>)))}
    \cup {JsonBody(Obj(Str(u))) : u \in Urls}

----------------------------------------------------------------------------
(* Initial values of each component *)

ScorerIdle == duration = 0 /\ calls = << >>
POSTIdle   == request = InvalidJson /\ platform = NotReached /\ response = NoResponse
HomeInit   == url = "" /\ loading = FALSE /\ result = Null /\ error = "" /\ inflight = << >>

----------------------------------------------------------------------------
(* SpecScorer: analyzeVideoForClips called up to MaxCalls times on a drawn    *)
(* duration, each time with any platform label.                              *)

InitScorer ==
    /\ duration \in Durations
    /\ calls = << >>
    /\ POSTIdle
    /\ HomeInit

CallAnalyzeVideoForClips(p) ==
    /\ Len(calls) < MaxCalls
    /\ calls' = Append(calls, [platform |-> p, clips |-> analyzeVideoForClips(duration, p)])
    /\ UNCHANGED <<duration, postVars, homeVars>>

NextScorer == \E p \in PlatformLabels : CallAnalyzeVideoForClips(p)

SpecScorer == InitScorer /\ [][NextScorer]_vars

----------------------------------------------------------------------------
(* SpecPOST: the handler run on one drawn request.                           *)

InitPOST ==
    /\ request \in Requests
    /\ platform = NotReached
    /\ response = NoResponse
    /\ ScorerIdle
    /\ HomeInit

HandlePOST ==
    /\ response = NoResponse
    /\ LET run == POSTRun(request)
       IN /\ platform' = run.platform
          /\ response' = run.response
    /\ UNCHANGED <<request, scorerVars, homeVars>>

NextPOST == HandlePOST

SpecPOST == InitPOST /\ [][NextPOST]_vars

----------------------------------------------------------------------------
(* SpecHome: the Home component, lines 211-248 and 279-291.  Each fetch is   *)
(* answered by the POST handler, or rejects.  Event handlers and the code    *)
(* after an await run to completion, so each is one step.                    *)

MaxInFlight == 2

\* What the user may type into the input (onChange, line 282).
TypedUrls == {"", "https://youtu.be/abc123", "https://tiktok.com/@x/video/1", "https://example.com"}

\* onChange={(e) => setUrl(e.target.value)}, line 282.
setUrl(v) ==
    /\ v # url
    /\ url' = v
    /\ UNCHANGED <<loading, result, error, inflight, scorerVars, postVars>>

\* handleAnalyze up to its first await, lines 217-234.
handleAnalyze ==
    IF url = ""
    THEN /\ error' = "Please enter a video URL"
         /\ UNCHANGED <<url, loading, result, inflight>>
    ELSE /\ Len(inflight) < MaxInFlight
         /\ loading' = TRUE
         /\ error' = ""
         /\ result' = Null
         /\ inflight' = Append(inflight, url)
         /\ UNCHANGED url

\* onClick={handleAnalyze} of a button with disabled={loading}, lines 287-289.
ClickAnalyze ==
    /\ ~loading
    /\ handleAnalyze
    /\ UNCHANGED <<scorerVars, postVars>>

\* onKeyPress={(e) => e.key === 'Enter' && handleAnalyze()}, line 285: the
\* input is not disabled while loading.
KeyPressEnter ==
    /\ handleAnalyze
    /\ UNCHANGED <<scorerVars, postVars>>

Remove(s, i) == SubSeq(s, 1, i - 1) \o SubSeq(s, i + 1, Len(s))

\* The body JSON.stringify({ url }) of line 233, as the handler parses it.
FetchRequest(u) == JsonBody(Obj(Str(u)))

\* The i-th pending fetch resolves with the handler's response; the rest of
\* handleAnalyze runs, lines 236-247.
FetchResolves(i) ==
    LET res == POST(FetchRequest(inflight[i]))
        data == res.body
        ok == res.status \in 200..299
    IN /\ IF ok
          THEN /\ result' = data
               /\ UNCHANGED error
          ELSE LET thrown == IF data.error # "" THEN data.error ELSE "Failed to analyze video"
               IN /\ error' = (IF thrown # "" THEN thrown ELSE "An error occurred")
                  /\ UNCHANGED result
       /\ loading' = FALSE
       /\ inflight' = Remove(inflight, i)
       /\ UNCHANGED <<url, scorerVars, postVars>>

\* The i-th pending fetch rejects (the network fails); the catch and finally
\* blocks run, lines 243-247.  The message is the browser's.
FetchRejects(i) ==
    /\ error' = "Failed to fetch"
    /\ loading' = FALSE
    /\ inflight' = Remove(inflight, i)
    /\ UNCHANGED <<url, result, scorerVars, postVars>>

InitHome ==
    /\ HomeInit
    /\ ScorerIdle
    /\ POSTIdle

NextHome ==
    \/ \E v \in TypedUrls : setUrl(v)
    \/ ClickAnalyze
    \/ KeyPressEnter
    \/ \E i \in DOMAIN inflight : FetchResolves(i)
    \/ \E i \in DOMAIN inflight : FetchRejects(i)

SpecHome == InitHome /\ [][NextHome]_vars

----------------------------------------------------------------------------
(* Properties of analyzeVideoForClips, checked under SpecScorer              *)

\* The clip lists returned by the calls made so far.
Returned == {calls[i].clips : i \in DOMAIN calls}

ClipsOf(cl) == {cl[k] : k \in DOMAIN cl}

\* C1: for every integer duration >= 0, every returned clip has its duration
\* field equal to endTime - startTime, endTime >= startTime and a score within
\* [0, 100].
C1_ClipFields ==
    duration >= 0 =>
        \A cl \in Returned : \A c \in ClipsOf(cl) :
            /\ c.duration = c.endTime - c.startTime
            /\ c.endTime >= c.startTime
            /\ c.score >= 0 /\ c.score <= 100

\* A call returned a Reaction clip whose end was capped to the duration.
C1_Witness ==
    \E cl \in Returned : \E c \in ClipsOf(cl) :
        c.score = 91 /\ c.endTime = duration /\ c.duration < 70

\* The position at which clip c was pushed (clips of one call differ in score).
PushIndex(c) == CHOOSE k \in DOMAIN pushedClips(duration) : pushedClips(duration)[k] = c

\* C2: the returned list is ordered by descending score, clips of equal score
\* in the order their rules pushed them; it holds at most 5 clips; truncation
\* removes nothing (every pushed clip is returned); and for duration 420 the
\* scores are 95, 92, 91, 89, 88.
C2_SortedTop5 ==
    \A cl \in Returned :
        /\ \A i, j \in DOMAIN cl :
               i < j => \/ cl[i].score > cl[j].score
                        \/ /\ cl[i].score = cl[j].score
                           /\ PushIndex(cl[i]) < PushIndex(cl[j])
        /\ Len(cl) <= 5
        /\ Len(cl) = Len(pushedClips(duration))
        /\ ClipsOf(cl) = ClipsOf(pushedClips(duration))
        /\ duration = 420 => [k \in DOMAIN cl |-> cl[k].score] = <<95, 92, 91, 89, 88>>

\* A call with duration 420 returned five clips.
C2_Witness ==
    duration = 420 /\ \E cl \in Returned : Len(cl) = 5

\* The number of clips of cl that carry the given score and first keyword.
CountRule(cl, score, keyword) ==
    Cardinality({k \in DOMAIN cl : cl[k].score = score /\ cl[k].keywords[1] = keyword})

Indicator(b) == IF b THEN 1 ELSE 0

\* C3: exactly one clip per rule whose threshold is met and no other clip:
\* Hook (92) iff duration >= 60, Reaction (91) iff >= 150, Peak (95) iff >= 180,
\* Payoff (88) iff >= 240, Best segment (89) iff >= 300; no clip below 60 and
\* only the Hook clip [0, min(75, duration)] from 60 up to 149.
C3_OneClipPerRule ==
    \A cl \in Returned :
        /\ CountRule(cl, 92, "hook") = Indicator(duration >= 60)
        /\ CountRule(cl, 91, "surprise") = Indicator(duration >= 150)
        /\ CountRule(cl, 95, "climax") = Indicator(duration >= 180)
        /\ CountRule(cl, 88, "payoff") = Indicator(duration >= 240)
        /\ CountRule(cl, 89, "coherent") = Indicator(duration >= 300)
        /\ Len(cl) = Indicator(duration >= 60) + Indicator(duration >= 150)
                     + Indicator(duration >= 180) + Indicator(duration >= 240)
                     + Indicator(duration >= 300)
        /\ duration < 60 => cl = << >>
        /\ (duration >= 60 /\ duration < 150) =>
               /\ Len(cl) = 1
               /\ cl[1].score = 92
               /\ cl[1].startTime = 0
               /\ cl[1].endTime = Min(75, duration)

\* A call with duration 180, the Peak threshold, returned Hook, Reaction and Peak.
C3_Witness ==
    duration = 180 /\ \E cl \in Returned : Len(cl) = 3 /\ cl[1].score = 95

\* The Best segment clips of a list.
BestClips(cl) == {c \in ClipsOf(cl) : c.score = 89}

\* C6 as stated: the Best segment clip starts at floor(0.3 * duration), ends at
\* start + 90 with score 89 when duration >= 300, and there is a duration at
\* which the rule applies and its endTime exceeds the duration.
C6_BestMayExceedDuration ==
    /\ \A cl \in Returned : \A c \in BestClips(cl) :
           /\ duration >= 300
           /\ c.startTime = (3 * duration) \div 10
           /\ c.endTime = c.startTime + 90
    /\ \E d \in Durations :
           \E c \in ClipsOf(analyzeVideoForClips(d, "Unknown")) :
               c.score = 89 /\ c.endTime > d

\* C6 amended: a Best segment clip is returned iff duration >= 300; it starts
\* at floor(0.3 * duration) and ends at start + 90, and although that end is not
\* capped it never exceeds the duration, because 0.3 d + 90 <= d from d >= 129.
C6_BestWithinDuration ==
    \A cl \in Returned :
        /\ (BestClips(cl) # {}) <=> (duration >= 300)
        /\ \A c \in BestClips(cl) :
               /\ c.startTime = (3 * duration) \div 10
               /\ c.endTime = c.startTime + 90
               /\ c.endTime <= duration

\* A call at the threshold 300 returned the Best segment clip [90, 180].
C6_Witness ==
    duration = 300 /\ \E cl \in Returned : \E c \in BestClips(cl) :
        c.startTime = 90 /\ c.endTime = 180

\* C7: calls with the same duration return the same ordered clip list, whatever
\* the platform argument of each and whatever calls came before.
C7_DurationAlone ==
    \A i, j \in DOMAIN calls : calls[i].clips = calls[j].clips

\* Two calls with different platforms returned a non-empty list.
C7_Witness ==
    /\ Len(calls) >= 2
    /\ calls[1].platform = "TikTok"
    /\ calls[2].platform = "YouTube"
    /\ Len(calls[2].clips) = 5

\* C8: for every integer duration >= 0 every returned clip lies inside the
\* video: 0 <= startTime <= endTime <= duration.
C8_ClipInsideVideo ==
    duration >= 0 =>
        \A cl \in Returned : \A c \in ClipsOf(cl) :
            /\ 0 <= c.startTime
            /\ c.startTime <= c.endTime
            /\ c.endTime <= duration

\* A call returned all five clips, the Best segment clip among them, at the
\* largest modelled duration.
C8_Witness ==
    /\ duration = MaxDuration
    /\ \E cl \in Returned : Len(cl) = 5 /\ BestClips(cl) # {}

----------------------------------------------------------------------------
(* Properties of detectPlatform and POST, checked under SpecPOST             *)

Handled == response # NoResponse

\* The platforms in priority order, each with its domain substrings.
PlatformDomains ==
    << [label |-> "YouTube",   domains |-> {"youtube.com", "youtu.be"}],
       [label |-> "TikTok",    domains |-> {"tiktok.com"}],
       [label |-> "Instagram", domains |-> {"instagram.com"}],
       [label |-> "Twitter/X", domains |-> {"twitter.com", "x.com"}],
       [label |-> "Facebook",  domains |-> {"facebook.com"}],
       [label |-> "Vimeo",     domains |-> {"vimeo.com"}],
       [label |-> "Twitch",    domains |-> {"twitch.tv"}] >>

\* The platforms (by priority index) of which some domain occurs in the string s.
Occurring(s) ==
    {k \in DOMAIN PlatformDomains :
        \E dom \in PlatformDomains[k].domains : \E i \in 1..Len(s) : LiteralAt(s, i, dom)}

\* The label of the first occurring platform, Unknown if none occurs.
FirstOccurring(s) ==
    LET occurring == Occurring(s)
    IN IF occurring = {} THEN "Unknown"
       ELSE PlatformDomains[CHOOSE k \in occurring : \A m \in occurring : k <= m].label

\* The request carries an object body whose url is a string.
HasStringUrl == request.parses /\ request.body.type = "object" /\ request.body.url.type = "string"

\* C5: detectPlatform returns the label of the first platform, in priority
\* order, of which a domain substring occurs anywhere in the URL, and Unknown
\* iff none occurs; https://youtu.be/abc123 gives YouTube,
\* https://tiktok.com/@x/video/1 gives TikTok, https://example.com gives Unknown.
C5_FirstMatchWins ==
    (HasStringUrl /\ platform # NotReached) =>
        LET s == request.body.url.str IN
        /\ platform = FirstOccurring(s)
        /\ (platform = "Unknown") <=> (Occurring(s) = {})
        /\ s = "https://youtu.be/abc123" => platform = "YouTube"
        /\ s = "https://tiktok.com/@x/video/1" => platform = "TikTok"
        /\ s = "https://example.com" => platform = "Unknown"

\* The handler classified a URL in which tiktok.com precedes youtube.com as
\* YouTube, the earlier platform in priority order.
C5_Witness ==
    /\ HasStringUrl
    /\ request.body.url.str = "https://tiktok.comyoutube.com"
    /\ platform = "YouTube"

\* The response to a string url that is not empty, as C4 states it.
StringUrlResponse(u) ==
    IF FirstOccurring(u.str) = "Unknown"
    THEN /\ response.status = 400
         /\ response.body.error # ""
    ELSE /\ response.status = 200
         /\ response.body.videoUrl = u
         /\ response.body.platform = FirstOccurring(u.str)
         /\ response.body.platform # "Unknown"
         /\ response.body.duration = 420
         /\ response.body.clips = analyzeVideoForClips(420, response.body.platform)

\* C4: every request whose JSON body parses gets one response: 400 with an
\* error message when url is missing or empty; otherwise 400 with an error
\* message when the platform is Unknown; otherwise 200 with the submitted url,
\* the classified platform, duration 420 and the scorer's clips for 420.  A url
\* that is neither missing, empty nor a string is left to the 500 clause.
C4_HandlerResponses ==
    (Handled /\ request.parses) =>
        LET u == UrlOf(request.body)
            missing == u.type \in {"undefined", "null"} \/ u = Str("")
        IN /\ response.status \in {200, 400, 500}
           /\ missing => (response.status = 400 /\ response.body.error # "")
           /\ (~missing /\ u.type = "string") => StringUrlResponse(u)

\* C4 restricted to bodies other than null: it holds there.
C4_NonNullBodies ==
    (Handled /\ request.parses /\ request.body.type # "null") => C4_HandlerResponses

\* Status 500 is returned exactly for a body that does not parse, a null
\* body, a truthy url without an includes method, and an array url classified
\* as YouTube.
C4_ServerErrors ==
    Handled =>
        ((response.status = 500) <=>
             \/ ~request.parses
             \/ request.body.type = "null"
             \/ LET u == UrlOf(request.body)
                IN Truthy(u) /\ (u.type \notin {"string", "array"}
                                 \/ (u.type = "array" /\ platform = "YouTube")))

----------------------------------------------------------------------------
(* Properties of the Home component, checked under SpecHome                  *)

\* C9: a non-empty error and a non-null result are never held together.
C9_ErrorResultExclusive == ~(error # "" /\ result # Null)

\* C10: loading is true whenever a started request has not completed, and
\* false once every started request has completed.
C10_LoadingTracksPending ==
    /\ inflight # << >> => loading
    /\ inflight = << >> => ~loading

\* The second half of C10 alone: it holds.
C10_IdleNotLoading == inflight = << >> => ~loading

\* The last clause of C10: an invocation with an empty url sends no request
\* and leaves loading and result unchanged.  It holds.
C10_EmptyUrlInvocation ==
    [][(url = "" /\ (ClickAnalyze \/ KeyPressEnter)) =>
           (inflight' = inflight /\ loading' = loading /\ result' = result)]_vars

====
